---- MODULE Spec2Model ----
(***************************************************************************)
(* A model of tools/synth.py, the synthetic posture-image generator of     *)
(* PostureKeeper: main(), PostureDataGenerator.__init__, generate_prompt,  *)
(* generate_image and generate_dataset, together with the SIGINT handler   *)
(* and the failures of the external calls (pipeline load, pipeline call,   *)
(* image save, annotation write).                                          *)
(*                                                                         *)
(* One process runs main(); pc is its position.  The signal is delivered   *)
(* between any two steps of that process, as CPython delivers it between   *)
(* two bytecodes.  Python's module-level random generator is a             *)
(* deterministic generator whose state is rng: seeded from OS entropy at   *)
(* import, reseeded by random.seed, advanced by every draw.  A variable    *)
(* that may hold None holds None or Some(v).                               *)
(***************************************************************************)
EXTENDS Integers, Sequences, FiniteSets, TLC

(***************************************************************************)
(* Bounds of the model.                                                    *)
(***************************************************************************)
\* largest value of --num-images tried
MaxImages == 2
\* largest value of --seed tried (0..MaxSeed)
MaxSeed == 1
\* number of states of the modelled random generator
RngModulus == 1024
\* number of different values of the operating system's entropy
MaxEntropy == 12
\* the iteration count main passes in continuous mode (1000000 at
\* synth.py:665), scaled down so that the end of range(num_images) is
\* reachable
ContinuousImages == 2
\* number of per-image seeds (2**32 at synth.py:436), scaled down to fit
\* 32-bit integers
SeedSpan == 65536

\* num_samples of a dry run without --num-images
DefaultSamples == 5
\* random draws generate_prompt makes
DrawsPerPrompt == 15

\* Python's None, and a value that is not None
None == <<>>
Some(v) == <<v>>
Val(o) == o[1]

(***************************************************************************)
(* Class attributes of PostureDataGenerator (synth.py:80-123).             *)
(***************************************************************************)
AGES ==
  <<
    "teenage", "young adult", "middle-aged", "senior", "in their 20s", "in their 30s",
    "in their 40s", "in their 50s"
  >>

GENDERS ==
  <<
    "man", "woman", "person", "male", "female"
  >>

ETHNICITIES ==
  <<
    "Asian", "Caucasian", "African American", "Hispanic", "Middle Eastern", "South Asian",
    "mixed ethnicity"
  >>

BUILDS ==
  <<
    "slim", "average build", "athletic", "heavy-set", "tall", "short", "medium height"
  >>

HAIR_STYLES ==
  <<
    "short hair", "long hair", "bald", "curly hair", "straight hair", "braided hair",
    "ponytail", "hair in a bun", "buzz cut"
  >>

GLASSES ==
  <<
    "wearing glasses", "without glasses", "with thick-framed glasses",
    "wearing reading glasses", ""
  >>

POSTURE_SEVERE ==
  <<
    "severe forward head posture looking at screen", "extreme neck crane toward monitor",
    "pronounced turtle neck at computer", "severe text neck viewing display",
    "head far forward staring at screen"
  >>

POSTURE_MODERATE ==
  <<
    "moderate forward head looking at screen", "head forward of shoulders viewing monitor",
    "mild turtle neck toward display", "slight neck strain at computer",
    "forward lean watching screen"
  >>

POSTURE_NORMAL ==
  <<
    "good upright posture at monitor", "proper ergonomic position viewing screen",
    "neutral spine looking at display", "healthy posture at computer",
    "aligned posture watching screen"
  >>

LIGHTING ==
  <<
    "soft natural daylight", "warm indoor lighting", "cool white light",
    "gentle ambient lighting", "diffused window light", "soft evening light"
  >>

BACKGROUNDS ==
  <<
    "home interior", "room", "indoor space", "office", "living space", "workspace"
  >>

CAMERA_ANGLES ==
  <<
    "laptop webcam angle", "desktop webcam view", "slight upward angle from laptop",
    "eye-level webcam position"
  >>

CLOTHING ==
  <<
    "wearing a t-shirt", "in a hoodie", "wearing a button-up shirt", "in a sweater",
    "wearing casual clothes", "in work attire"
  >>

COLORS ==
  <<
    "black", "white", "blue", "gray", "navy", "dark colored", "light colored"
  >>

ACTIVITIES ==
  <<
    "looking at computer screen", "focused on monitor", "working at screen",
    "viewing display", "staring at monitor", "eyes on screen", "watching computer"
  >>

EXPRESSIONS ==
  <<
    "focused forward", "concentrated gaze", "attentive look", "eyes forward",
    "looking straight"
  >>

(***************************************************************************)
(* Model identifiers given to --model (names of local model directories), *)
(* as sequences of characters.                                             *)
(***************************************************************************)
FluxTurbo ==
  <<"F","L","U","X",".","1","-","T","u","r","b","o","-","A","l","p","h","a">>

SD35Turbo ==
  <<"s","t","a","b","l","e","-","d","i","f","f","u","s","i","o","n","-","3",".","5","-","l","a","r","g","e","-","t","u","r","b","o">>

SdxlTurbo ==
  <<"s","d","x","l","-","t","u","r","b","o">>

SdxlLightning ==
  <<"S","D","X","L","-","L","i","g","h","t","n","i","n","g">>

RealVisXL ==
  <<"R","e","a","l","V","i","s","X","L","_","V","4",".","0">>

SD15 ==
  <<"s","t","a","b","l","e","-","d","i","f","f","u","s","i","o","n","-","v","1","-","5">>

ModelIds ==
  {FluxTurbo, SD35Turbo, SdxlTurbo, SdxlLightning, RealVisXL, SD15}

\* the substrings the code looks for
StrFlux == <<"f","l","u","x">>
StrSd3 == <<"s","d","3">>
StrStableDiffusion3 ==
  <<"s","t","a","b","l","e","-","d","i","f","f","u","s","i","o","n","-","3">>
StrSdxl == <<"s","d","x","l">>
StrRealvis == <<"r","e","a","l","v","i","s">>
StrTurbo == <<"t","u","r","b","o">>
StrLightning == <<"l","i","g","h","t","n","i","n","g">>

UpperCase == <<"A","B","C","D","E","F","G","H","I","J","K","L","M",
               "N","O","P","Q","R","S","T","U","V","W","X","Y","Z">>
LowerCase == <<"a","b","c","d","e","f","g","h","i","j","k","l","m",
               "n","o","p","q","r","s","t","u","v","w","x","y","z">>

\* str.lower() on one character
LowerChar(c) ==
  IF \E k \in 1..26 : UpperCase[k] = c
    THEN LowerCase[CHOOSE k \in 1..26 : UpperCase[k] = c]
    ELSE c

\* str.lower()
Lower(s) == [k \in 1..Len(s) |-> LowerChar(s[k])]

\* sub in s
Contains(sub, s) ==
  \E k \in 1..(Len(s) - Len(sub) + 1) : SubSeq(s, k, k + Len(sub) - 1) = sub

(***************************************************************************)
(* The random module: one generator state, advanced by every draw.         *)
(***************************************************************************)
\* the generator's next state
RngNext(r) == (65 * r + 175) % RngModulus

\* the state the generator is in after import, seeded from entropy e
EntropyState(e) == (101 * e + 3) % RngModulus

\* the state random.seed(s) puts the generator in
SeedState(s) == (7 * s + 1) % RngModulus

\* the state after k draws from state r
RECURSIVE RngAfter(_, _)
RngAfter(r, k) == IF k = 0 THEN r ELSE RngAfter(RngNext(r), k - 1)

\* a uniform integer below n, from generator state r
RandBelow(n, r) == (r * n) \div RngModulus

\* random.choice(seq) from generator state r
Choice(seq, r) == seq[1 + RandBelow(Len(seq), r)]

\* random.randint(a, b) from generator state r
RandInt(a, b, r) == a + RandBelow(b - a + 1, r)

\* the running totals of weights, as itertools.accumulate gives them
RECURSIVE Accumulate(_, _)
Accumulate(weights, k) ==
  IF k = 0 THEN 0 ELSE Accumulate(weights, k - 1) + weights[k]

\* random.choices(population, weights)[0] from generator state r: the
\* population member at bisect(cum_weights, random() * total, 0, n - 1);
\* weights are in hundredths
Choices(population, weights, r) ==
  LET n == Len(population)
      total == Accumulate(weights, n)
      below == {k \in 1..(n - 1) :
                  Accumulate(weights, k) * RngModulus <= r * total}
  IN  population[1 + Cardinality(below)]

(***************************************************************************)
(* The category distributions.                                             *)
(***************************************************************************)
\* generate_dataset's default distribution: keys and weights (hundredths)
DatasetCategories == <<"interrupt-worthy", "leave-me-alone">>
DatasetWeights == <<50, 50>>

\* the distribution of the dry run
DryRunCategories == <<"interrupt-worthy", "borderline", "leave-me-alone">>
DryRunWeights == <<33, 33, 33>>

(***************************************************************************)
(* PostureDataGenerator.generate_prompt                                    *)
(***************************************************************************)
NonEmpty(part) == part # <<>> /\ part # <<"">>

\* filter(None, parts): an empty string is dropped
FilterNone(parts) == SelectSeq(parts, NonEmpty)

NegativePromptDetailed ==
  <<"cartoon, anime, illustration, painting, drawing, art, sketch, 3d render, ",
    "blurry, out of focus, distorted face, deformed, ugly, mutated, disfigured, ",
    "profile view, looking away from camera, eyes closed, looking down, looking up, ",
    "multiple people, cropped head, cut off, bad anatomy, worst quality, low quality">>
NegativePromptConcise ==
  <<"cartoon, anime, blurry, distorted, profile view, looking away, ",
    "looking sideways, eyes closed, looking down, looking up">>

\* a variant of the ranges with a wider borderline band
PostureRangeWideBorderline(posture_type) ==
  IF posture_type = "interrupt-worthy"
    THEN [descs |-> POSTURE_SEVERE, lo |-> 30, hi |-> 48]
  ELSE IF posture_type = "borderline"
    THEN [descs |-> POSTURE_MODERATE, lo |-> 45, hi |-> 55]
    ELSE [descs |-> POSTURE_NORMAL, lo |-> 53, hi |-> 70]

\* the (posture description list, lowest angle, highest angle) of a type
PostureRange(posture_type) ==
  IF posture_type = "interrupt-worthy"
    THEN [descs |-> POSTURE_SEVERE, lo |-> 30, hi |-> 48]
  ELSE IF posture_type = "borderline"
    THEN [descs |-> POSTURE_MODERATE, lo |-> 48, hi |-> 53]
    ELSE [descs |-> POSTURE_NORMAL, lo |-> 53, hi |-> 70]

\* generate_prompt(posture_type) on a generator of model model_id, with
\* the random generator in state r0: the prompt, the negative prompt, the
\* metadata (its timestamp left out) and the generator state afterwards
generate_prompt(posture_type, model_id, r0) ==
  LET range == PostureRange(posture_type)
      r1 == RngNext(r0)
      posture_desc == Choice(range.descs, r1)
      r2 == RngNext(r1)
      cva_angle == RandInt(range.lo, range.hi, r2)
      r3 == RngNext(r2)
      age == Choice(AGES, r3)
      r4 == RngNext(r3)
      gender == Choice(GENDERS, r4)
      r5 == RngNext(r4)
      ethnicity == Choice(ETHNICITIES, r5)
      r6 == RngNext(r5)
      build == Choice(BUILDS, r6)
      r7 == RngNext(r6)
      hair == Choice(HAIR_STYLES, r7)
      r8 == RngNext(r7)
      glasses == Choice(GLASSES, r8)
      r9 == RngNext(r8)
      lighting == Choice(LIGHTING, r9)
      r10 == RngNext(r9)
      background == Choice(BACKGROUNDS, r10)
      r11 == RngNext(r10)
      camera == Choice(CAMERA_ANGLES, r11)
      r12 == RngNext(r11)
      clothing == Choice(CLOTHING, r12)
      r13 == RngNext(r12)
      color == Choice(COLORS, r13)
      r14 == RngNext(r13)
      activity == Choice(ACTIVITIES, r14)
      r15 == RngNext(r14)
      expression == Choice(EXPRESSIONS, r15)
      detailed == /\ model_id # <<>>
                  /\ \/ Contains(StrFlux, Lower(model_id))
                     \/ Contains(StrSd3, Lower(model_id))
      detailed_parts ==
        << <<"A photorealistic webcam photograph of a", age, ethnicity, gender>>,
           <<"sitting at a desk", posture_desc>>,
           IF hair # "" THEN <<"The person has", hair>> ELSE <<"">>,
           IF glasses # "" THEN <<glasses>> ELSE <<"">>,
           IF clothing # "" /\ color # ""
             THEN <<"wearing", color, clothing>> ELSE <<"">>,
           <<"The person is", activity, "with a", expression>>,
           <<"Shot from a", camera, ", showing upper body and head">>,
           <<"Indoor setting with", lighting, "and a softly", background,
             "in the background">>,
           <<"High quality, sharp focus on the person, natural skin tones">>,
           <<"Realistic office or home workspace environment">> >>
      concise_parts ==
        << <<"Webcam photo of", ethnicity, gender,
             "working in front of a computer or laptop">>,
           <<hair>>,
           <<glasses>>,
           <<posture_desc>>,
           <<activity>>,
           <<lighting, ", blurred background">>,
           <<"portrait, looking more or less straight at the screen">> >>
      prompt ==
        IF detailed
          THEN [sep |-> ". ", parts |-> FilterNone(detailed_parts)]
          ELSE [sep |-> ", ", parts |-> FilterNone(concise_parts)]
      negative_prompt ==
        IF detailed THEN NegativePromptDetailed ELSE NegativePromptConcise
      metadata ==
        [posture_type |-> posture_type,
         cva_angle |-> cva_angle,
         demographics |-> [age |-> age, gender |-> gender,
                           ethnicity |-> ethnicity, build |-> build,
                           hair |-> hair, glasses |-> glasses],
         appearance |-> [clothing |-> clothing, color |-> color],
         environment |-> [lighting |-> lighting, background |-> background,
                          camera |-> camera],
         context |-> [activity |-> activity, expression |-> expression],
         posture |-> [description |-> posture_desc, type |-> posture_type,
                      cva_angle |-> cva_angle]]
  IN  [prompt |-> prompt, negative_prompt |-> negative_prompt,
       metadata |-> metadata, rng |-> r15]

(***************************************************************************)
(* PostureDataGenerator.__init__: the model class flags and step count.    *)
(***************************************************************************)
\* the is_* attributes computed from the model identifier
ModelFlags(model_id) ==
  LET m == Lower(model_id)
  IN  [is_sdxl |-> Contains(StrSdxl, m) \/ Contains(StrRealvis, m),
       is_turbo |-> Contains(StrTurbo, m),
       is_lightning |-> Contains(StrLightning, m),
       is_flux |-> Contains(StrFlux, m),
       is_sd3 |-> Contains(StrStableDiffusion3, m)]

\* self.steps, as the end of __init__ sets it
InitSteps(flags) ==
  IF flags.is_flux THEN 28
  ELSE IF flags.is_sd3 THEN 28
  ELSE IF flags.is_turbo \/ flags.is_lightning THEN 2
  ELSE IF flags.is_sdxl THEN 45
  ELSE 40

(***************************************************************************)
(* PostureDataGenerator.generate_image: the pipeline arguments.            *)
(***************************************************************************)
\* a variant of the guidance choice that tests turbo before SD3
GuidanceScaleTurboFirst(flags) ==
  IF flags.is_flux THEN 35
  ELSE IF flags.is_turbo THEN 0
  ELSE IF flags.is_sd3 THEN 70
  ELSE IF flags.is_lightning THEN 0
  ELSE 75

\* guidance_scale, in tenths
GuidanceScale(flags) ==
  IF flags.is_flux THEN 35
  ELSE IF flags.is_sd3 THEN 70
  ELSE IF flags.is_turbo THEN 0
  ELSE IF flags.is_lightning THEN 0
  ELSE 75

\* (height, width)
Resolution(flags) ==
  IF flags.is_flux THEN <<1024, 768>>
  ELSE IF flags.is_sd3 THEN <<1024, 768>>
  ELSE IF flags.is_sdxl THEN <<1024, 768>>
  ELSE <<512, 384>>

\* the seed generate_image draws when given none:
\* random.randint(0, 2**32 - 1), over the scaled range
ImageSeed(r) == RandInt(0, SeedSpan - 1, r)

\* pipe_kwargs for a prompt, a negative prompt and a seed
PipeKwargs(slf, prompt, negative_prompt, seed) ==
  LET guidance_scale == GuidanceScale(slf.flags)
      res == Resolution(slf.flags)
      base == [prompt |-> prompt,
               num_inference_steps |-> Val(slf.steps),
               guidance_scale |-> guidance_scale,
               generator |-> seed,
               height |-> res[1],
               width |-> res[2]]
  IN  IF guidance_scale > 0 /\ negative_prompt # <<>>
        THEN [k \in DOMAIN base \cup {"negative_prompt"} |->
                IF k = "negative_prompt" THEN negative_prompt ELSE base[k]]
        ELSE base

(***************************************************************************)
(* generate_dataset: file name and annotation of one item.                 *)
(***************************************************************************)
\* hashlib.md5(prompt.encode()).hexdigest()[:8]: a digest of the prompt;
\* equal prompts have equal digests, different prompts may collide
Md5Prefix(prompt) ==
  31 * Len(prompt.parts) + Len(prompt.parts[1])

\* the path of item idx relative to output_dir
ImagePath(category, idx, prompt) ==
  <<category, [category |-> category, index |-> idx,
               prompt_hash |-> Md5Prefix(prompt)]>>

\* the annotation record of an item
Annotation(category, idx, item, seed, model_id) ==
  [image_path |-> ImagePath(category, idx, item.prompt),
   category |-> category,
   classification |-> IF category = "interrupt-worthy"
                        THEN "interrupt-worthy" ELSE "leave-me-alone",
   metadata |-> item.metadata,
   generation |-> [prompt |-> item.prompt,
                   negative_prompt |-> item.negative_prompt,
                   seed |-> seed,
                   model |-> model_id]]

(***************************************************************************)
(* The state.                                                              *)
(***************************************************************************)
VARIABLES
  pc,               \* position of the process in main / generate_dataset
  args,             \* the parsed command line
  rng,              \* state of the random module's generator
  draws,            \* number of draws made since the seeding step
  self,             \* the PostureDataGenerator, None before construction
  num_images,       \* generate_dataset's parameter; num_samples in a dry run
  i,                \* the loop variable
  interrupted,      \* generate_dataset's flag, set by signal_handler
  handler,          \* TRUE once signal_handler is installed for SIGINT
  category,         \* category of the current item
  item,             \* generate_prompt's result for the current item
  seed,             \* the seed generate_image returned for the current item
  pipe_kwargs,      \* the arguments of the last call of self.pipe
  dirs,             \* category directories created under output_dir
  images,           \* image files written under output_dir
  annotations,      \* generate_dataset's in-memory list
  annotations_file, \* records appended to annotations.jsonl
  errlog,           \* items reported by "Error generating image i"
  samples,          \* samples printed by the dry run
  summary           \* what the closing summary printed

vars == <<pc, args, rng, draws, self, num_images, i, interrupted, handler,
          category, item, seed, pipe_kwargs, dirs, images, annotations,
          annotations_file, errlog, samples, summary>>

\* the values argparse can give
Args ==
  [model : ModelIds,
   num_images : {None} \cup {Some(n) : n \in 0..MaxImages},
   continuous : BOOLEAN,
   seed : {None} \cup {Some(s) : s \in 0..MaxSeed},
   dry_run : BOOLEAN]

\* Python's truth value of an optional integer argument
Truthy(v) == v # None /\ Val(v) # 0

Init ==
  /\ pc = "seed"
  /\ args \in Args
  /\ rng \in {EntropyState(e) : e \in 0..(MaxEntropy - 1)}
  /\ draws = 0
  /\ self = None
  /\ num_images = None
  /\ i = 0
  /\ interrupted = FALSE
  /\ handler = FALSE
  /\ category = None
  /\ item = None
  /\ seed = None
  /\ pipe_kwargs = None
  /\ dirs = {}
  /\ images = {}
  /\ annotations = <<>>
  /\ annotations_file = <<>>
  /\ errlog = <<>>
  /\ samples = <<>>
  /\ summary = None

(***************************************************************************)
(* main                                                                    *)
(***************************************************************************)
\* if args.seed: random.seed(args.seed)
SeedRandom ==
  /\ pc = "seed"
  /\ rng' = IF Truthy(args.seed) THEN SeedState(Val(args.seed)) ELSE rng
  /\ pc' = "dispatch"
  /\ UNCHANGED <<args, draws, self, num_images, i, interrupted, handler,
                 category, item, seed, pipe_kwargs, dirs, images,
                 annotations, annotations_file, errlog, samples, summary>>

\* a variant of the dry-run construction that loads the pipeline all the same
DryRunInitLoadsModel ==
  /\ pc = "dispatch"
  /\ args.dry_run
  /\ self' = Some([model_id |-> args.model, dry_run |-> TRUE,
                   flags |-> ModelFlags(args.model),
                   pipe |-> Some("pipeline"), steps |-> None])
  /\ num_images' = IF Truthy(args.num_images)
                     THEN args.num_images ELSE Some(DefaultSamples)
  /\ i' = 0
  /\ pc' = "dry_loop"
  /\ UNCHANGED <<args, rng, draws, interrupted, handler, category, item,
                 seed, pipe_kwargs, dirs, images, annotations,
                 annotations_file, errlog, samples, summary>>

\* the dry-run branch up to its loop: __init__ with dry_run=True returns
\* before loading a model
DryRunInit ==
  /\ pc = "dispatch"
  /\ args.dry_run
  /\ self' = Some([model_id |-> args.model, dry_run |-> TRUE,
                   flags |-> ModelFlags(args.model),
                   pipe |-> None, steps |-> None])
  /\ num_images' = IF Truthy(args.num_images)
                     THEN args.num_images ELSE Some(DefaultSamples)
  /\ i' = 0
  /\ pc' = "dry_loop"
  /\ UNCHANGED <<args, rng, draws, interrupted, handler, category, item,
                 seed, pipe_kwargs, dirs, images, annotations,
                 annotations_file, errlog, samples, summary>>

\* one iteration of the dry-run loop: choose a category, generate the
\* prompt, print the sample
DryRunSample ==
  /\ pc = "dry_loop"
  /\ i < Val(num_images)
  /\ LET r == RngNext(rng)
         cat == Choices(DryRunCategories, DryRunWeights, r)
         res == generate_prompt(cat, Val(self).model_id, r)
     IN  /\ category' = Some(cat)
         /\ item' = Some([prompt |-> res.prompt,
                          negative_prompt |-> res.negative_prompt,
                          metadata |-> res.metadata])
         /\ rng' = res.rng
         /\ draws' = draws + DrawsPerPrompt + 1
         /\ samples' = Append(samples, [category |-> cat,
                                        prompt |-> res.prompt,
                                        negative_prompt |-> res.negative_prompt,
                                        metadata |-> res.metadata])
  /\ i' = i + 1
  /\ UNCHANGED <<pc, args, self, num_images, interrupted, handler, seed,
                 pipe_kwargs, dirs, images, annotations, annotations_file,
                 errlog, summary>>

\* the dry-run loop is exhausted: main returns
DryRunReturn ==
  /\ pc = "dry_loop"
  /\ i >= Val(num_images)
  /\ pc' = "exit"
  /\ UNCHANGED <<args, rng, draws, self, num_images, i, interrupted,
                 handler, category, item, seed, pipe_kwargs, dirs, images,
                 annotations, annotations_file, errlog, samples, summary>>

\* PostureDataGenerator(...) without dry_run: the pipeline is loaded and
\* self.steps set, or from_pretrained raises and main ends with a traceback
NewGenerator ==
  /\ pc = "dispatch"
  /\ ~args.dry_run
  /\ \/ /\ self' = Some([model_id |-> args.model, dry_run |-> FALSE,
                         flags |-> ModelFlags(args.model),
                         pipe |-> Some("pipeline"),
                         steps |-> Some(InitSteps(ModelFlags(args.model)))])
        /\ pc' = "mode"
     \/ /\ self' = self
        /\ pc' = "crashed"
  /\ UNCHANGED <<args, rng, draws, num_images, i, interrupted, handler,
                 category, item, seed, pipe_kwargs, dirs, images,
                 annotations, annotations_file, errlog, samples, summary>>

\* a variant of the mode choice in which --num-images overrides --continuous
ChooseModeIgnoresContinuous ==
  /\ pc = "mode"
  /\ num_images' = IF args.num_images = None
                     THEN Some(ContinuousImages) ELSE args.num_images
  /\ pc' = "mkdirs"
  /\ UNCHANGED <<args, rng, draws, self, i, interrupted, handler, category,
                 item, seed, pipe_kwargs, dirs, images, annotations,
                 annotations_file, errlog, samples, summary>>

\* main chooses continuous or fixed-number mode and calls generate_dataset
ChooseMode ==
  /\ pc = "mode"
  /\ num_images' = IF args.continuous \/ args.num_images = None
                     THEN Some(ContinuousImages) ELSE args.num_images
  /\ pc' = "mkdirs"
  /\ UNCHANGED <<args, rng, draws, self, i, interrupted, handler, category,
                 item, seed, pipe_kwargs, dirs, images, annotations,
                 annotations_file, errlog, samples, summary>>

(***************************************************************************)
(* generate_dataset                                                        *)
(***************************************************************************)
\* is the member of seq
Range(seq) == {seq[k] : k \in 1..Len(seq)}

\* create the category directories; an OSError here is not caught
MakeDirs ==
  /\ pc = "mkdirs"
  /\ \/ /\ dirs' = dirs \cup Range(DatasetCategories)
        /\ pc' = "install"
     \/ /\ dirs' = dirs
        /\ pc' = "crashed"
  /\ UNCHANGED <<args, rng, draws, self, num_images, i, interrupted,
                 handler, category, item, seed, pipe_kwargs, images,
                 annotations, annotations_file, errlog, samples, summary>>

\* annotations = [], interrupted = False, signal.signal(SIGINT, handler)
InstallHandler ==
  /\ pc = "install"
  /\ annotations' = <<>>
  /\ interrupted' = FALSE
  /\ handler' = TRUE
  /\ i' = 0
  /\ pc' = "for"
  /\ UNCHANGED <<args, rng, draws, self, num_images, category, item, seed,
                 pipe_kwargs, dirs, images, annotations_file, errlog,
                 samples, summary>>

\* a variant of the loop head that stops one item early
ForNextOffByOne ==
  /\ pc = "for"
  /\ pc' = IF i + 1 < Val(num_images) THEN "check" ELSE "summary"
  /\ UNCHANGED <<args, rng, draws, self, num_images, i, interrupted,
                 handler, category, item, seed, pipe_kwargs, dirs, images,
                 annotations, annotations_file, errlog, samples, summary>>

\* for i in range(num_images): the next item, or the end of the loop
ForNext ==
  /\ pc = "for"
  /\ pc' = IF i < Val(num_images) THEN "check" ELSE "summary"
  /\ UNCHANGED <<args, rng, draws, self, num_images, i, interrupted,
                 handler, category, item, seed, pipe_kwargs, dirs, images,
                 annotations, annotations_file, errlog, samples, summary>>

\* a variant of the interrupted test that never breaks
CheckInterruptedIgnored ==
  /\ pc = "check"
  /\ pc' = "select"
  /\ UNCHANGED <<args, rng, draws, self, num_images, i, interrupted,
                 handler, category, item, seed, pipe_kwargs, dirs, images,
                 annotations, annotations_file, errlog, samples, summary>>

\* if interrupted: break
CheckInterrupted ==
  /\ pc = "check"
  /\ pc' = IF interrupted THEN "summary" ELSE "select"
  /\ UNCHANGED <<args, rng, draws, self, num_images, i, interrupted,
                 handler, category, item, seed, pipe_kwargs, dirs, images,
                 annotations, annotations_file, errlog, samples, summary>>

\* category = random.choices(keys, weights)[0]
SelectCategory ==
  /\ pc = "select"
  /\ category' = Some(Choices(DatasetCategories, DatasetWeights, RngNext(rng)))
  /\ rng' = RngNext(rng)
  /\ draws' = draws + 1
  /\ pc' = "prompt"
  /\ UNCHANGED <<args, self, num_images, i, interrupted, handler, item,
                 seed, pipe_kwargs, dirs, images, annotations,
                 annotations_file, errlog, samples, summary>>

\* prompt, negative_prompt, metadata = self.generate_prompt(category)
GeneratePrompt ==
  /\ pc = "prompt"
  /\ LET res == generate_prompt(Val(category), Val(self).model_id, rng)
     IN  /\ item' = Some([prompt |-> res.prompt,
                          negative_prompt |-> res.negative_prompt,
                          metadata |-> res.metadata])
         /\ rng' = res.rng
  /\ draws' = draws + DrawsPerPrompt
  /\ pc' = "generate"
  /\ UNCHANGED <<args, self, num_images, i, interrupted, handler, category,
                 seed, pipe_kwargs, dirs, images, annotations,
                 annotations_file, errlog, samples, summary>>

\* a variant of the except clause that ends the loop instead of continuing
ContinueAbortsBatch(idx, call) ==
  /\ errlog' = Append(errlog, [index |-> idx, raised |-> call])
  /\ i' = idx + 1
  /\ pc' = "summary"

\* the except clause: report item idx with the exception raised by call
\* and continue with the next item
Continue(idx, call) ==
  /\ errlog' = Append(errlog, [index |-> idx, raised |-> call])
  /\ i' = idx + 1
  /\ pc' = "for"

\* image, seed = self.generate_image(prompt, negative_prompt): the seed is
\* drawn, the pipeline is called, and the call returns an image or raises
GenerateImage ==
  /\ pc = "generate"
  /\ LET s == ImageSeed(RngNext(rng))
     IN  /\ pipe_kwargs' = Some(PipeKwargs(Val(self), Val(item).prompt,
                                           Val(item).negative_prompt, s))
         /\ \/ /\ seed' = Some(s)
               /\ pc' = "save"
               /\ UNCHANGED <<i, errlog>>
            \/ /\ seed' = seed
               /\ Continue(i, "generate_image")
  /\ rng' = RngNext(rng)
  /\ draws' = draws + 1
  /\ UNCHANGED <<args, self, num_images, interrupted, handler, category,
                 item, dirs, images, annotations, annotations_file, samples,
                 summary>>

\* a variant of the save step that goes on to the annotation without the
\* file having been written
SaveImageNotWritten ==
  /\ pc = "save"
  /\ \/ /\ images' = images
        /\ pc' = "annotate"
        /\ UNCHANGED <<i, errlog>>
     \/ /\ images' = images
        /\ Continue(i, "save")
  /\ UNCHANGED <<args, rng, draws, self, num_images, interrupted, handler,
                 category, item, seed, pipe_kwargs, dirs, annotations,
                 annotations_file, samples, summary>>

\* image.save(filepath): the file is written, or save raises
SaveImage ==
  /\ pc = "save"
  /\ \/ /\ images' = images \cup {ImagePath(Val(category), i, Val(item).prompt)}
        /\ pc' = "annotate"
        /\ UNCHANGED <<i, errlog>>
     \/ /\ images' = images
        /\ Continue(i, "save")
  /\ UNCHANGED <<args, rng, draws, self, num_images, interrupted, handler,
                 category, item, seed, pipe_kwargs, dirs, annotations,
                 annotations_file, samples, summary>>

\* annotations.append(annotation)
AppendAnnotation ==
  /\ pc = "annotate"
  /\ annotations' = Append(annotations,
                           Annotation(Val(category), i, Val(item), Val(seed),
                                      Val(self).model_id))
  /\ pc' = "write"
  /\ UNCHANGED <<args, rng, draws, self, num_images, i, interrupted,
                 handler, category, item, seed, pipe_kwargs, dirs, images,
                 annotations_file, errlog, samples, summary>>

\* a variant of the annotation write that gives the item up when the
\* interrupted flag is set
WriteAnnotationUnlessInterrupted ==
  /\ pc = "write"
  /\ \/ /\ annotations_file' =
             IF interrupted THEN annotations_file
             ELSE Append(annotations_file, annotations[Len(annotations)])
        /\ i' = i + 1
        /\ pc' = "for"
        /\ UNCHANGED errlog
     \/ /\ annotations_file' = annotations_file
        /\ errlog' = Append(errlog, [index |-> i, raised |-> "write"])
        /\ i' = i + 1
        /\ pc' = "for"
  /\ UNCHANGED <<args, rng, draws, self, num_images, interrupted, handler,
                 category, item, seed, pipe_kwargs, dirs, images,
                 annotations, samples, summary>>

\* with open(annotations_file, 'a') as f: f.write(...): the record is
\* appended, or open or write raises
WriteAnnotation ==
  /\ pc = "write"
  /\ \/ /\ annotations_file' =
             Append(annotations_file, annotations[Len(annotations)])
        /\ i' = i + 1
        /\ pc' = "for"
        /\ UNCHANGED errlog
     \/ /\ annotations_file' = annotations_file
        /\ Continue(i, "write")
  /\ UNCHANGED <<args, rng, draws, self, num_images, interrupted, handler,
                 category, item, seed, pipe_kwargs, dirs, images,
                 annotations, samples, summary>>

\* the closing summary and statistics; generate_dataset and main return
PrintSummary ==
  /\ pc = "summary"
  /\ summary' = Some([stopped |-> interrupted,
                      generated |-> Len(annotations)])
  /\ pc' = "exit"
  /\ UNCHANGED <<args, rng, draws, self, num_images, i, interrupted,
                 handler, category, item, seed, pipe_kwargs, dirs, images,
                 annotations, annotations_file, errlog, samples>>

(***************************************************************************)
(* SIGINT                                                                  *)
(***************************************************************************)
Running == pc \notin {"exit", "crashed", "aborted"}

\* SIGINT is delivered: signal_handler sets the flag; before it is
\* installed Python raises KeyboardInterrupt, which nothing catches
Sigint ==
  /\ Running
  /\ IF handler
       THEN /\ interrupted' = TRUE
            /\ pc' = pc
       ELSE /\ interrupted' = interrupted
            /\ pc' = "aborted"
  /\ UNCHANGED <<args, rng, draws, self, num_images, i, handler, category,
                 item, seed, pipe_kwargs, dirs, images, annotations,
                 annotations_file, errlog, samples, summary>>

Next ==
  \/ SeedRandom
  \/ DryRunInit
  \/ DryRunSample
  \/ DryRunReturn
  \/ NewGenerator
  \/ ChooseMode
  \/ MakeDirs
  \/ InstallHandler
  \/ ForNext
  \/ CheckInterrupted
  \/ SelectCategory
  \/ GeneratePrompt
  \/ GenerateImage
  \/ SaveImage
  \/ AppendAnnotation
  \/ WriteAnnotation
  \/ PrintSummary
  \/ Sigint

Spec == Init /\ [][Next]_vars

(***************************************************************************)
(* Notions the properties share.                                           *)
(***************************************************************************)
\* the run went into generate_dataset's loop
InDataset == handler

\* the run is over: main returned, or ended with a traceback
Ended == pc \in {"exit", "crashed", "aborted"}

\* the positions inside the loop body after the interrupted check
InFlight == {"select", "prompt", "generate", "save", "annotate", "write"}

\* indices of the items the except clause reported with a call in calls
FailedIn(calls) ==
  {errlog[k].index : k \in {n \in 1..Len(errlog) : errlog[n].raised \in calls}}

\* indices of the items that have a record in a list of annotations
Recorded(list) == {list[k].image_path[2].index : k \in 1..Len(list)}

\* indices of the items that have an image file
Imaged == {p[2].index : p \in images}

(***************************************************************************)
(* C1: when generate_image or image.save raises for item i, the exception  *)
(* is caught and the batch goes on: the next position is the head of the   *)
(* loop with item i + 1, from where an uninterrupted loop with items left  *)
(* starts that item; and item i never gets an annotation record, neither   *)
(* in annotations.jsonl nor in the in-memory list.                         *)
(***************************************************************************)
C1_FailureSkipsOnlyTheItem ==
  /\ [][(pc \in {"generate", "save"} /\ errlog' # errlog) =>
          /\ errlog' = Append(errlog, [index |-> i, raised |->
                         IF pc = "generate" THEN "generate_image" ELSE "save"])
          /\ pc' = "for"
          /\ i' = i + 1
          /\ annotations' = annotations
          /\ annotations_file' = annotations_file]_vars
  /\ [][(pc = "for" /\ i < Val(num_images) /\ pc' # pc) =>
          (pc' = "check" /\ i' = i)]_vars
  /\ [][(pc = "check" /\ ~interrupted /\ pc' # pc) =>
          (pc' = "select" /\ i' = i)]_vars
  /\ [](FailedIn({"generate_image", "save"})
          \cap (Recorded(annotations_file) \cup Recorded(annotations)) = {})

\* item 0 failed in generate_image or save and item 1 has been started
C1_Witness ==
  /\ pc = "select"
  /\ i = 1
  /\ 0 \in FailedIn({"generate_image", "save"})
  /\ annotations_file = <<>>

(***************************************************************************)
(* C2 as stated: once SIGINT has been received no new item is started:     *)
(* category selection only ever begins with the interrupted flag false,    *)
(* and the flag is never reset.                                            *)
(***************************************************************************)
C2_SelectionNeverAfterInterrupt ==
  /\ [](pc = "select" => ~interrupted)
  /\ [][interrupted => interrupted']_vars

(***************************************************************************)
(* C2 amended: the flag is tested once per item, at the head of the loop   *)
(* body.  An item passes that test only with the flag false; once the flag *)
(* is set the test always leaves the loop, so only the item that had       *)
(* already passed it can still reach category selection; and the flag is   *)
(* never reset.                                                            *)
(***************************************************************************)
C2_NoItemPassesTheCheckAfterInterrupt ==
  /\ [][(pc = "check" /\ pc' = "select") => (~interrupted /\ i' = i)]_vars
  /\ [][(pc = "check" /\ interrupted /\ pc' # pc) => pc' = "summary"]_vars
  /\ [][(interrupted /\ pc \in InFlight) => i' \in {i, i + 1}]_vars
  /\ [][interrupted => interrupted']_vars

\* the loop was left by the interrupted test with items remaining
C2_Witness ==
  /\ pc = "summary"
  /\ interrupted
  /\ i < Val(num_images)

(***************************************************************************)
(* C3: a SIGINT that arrives while item i is in flight (after its          *)
(* interrupted test, before its annotation is written) does not cut the    *)
(* item short: each remaining step of the item is taken as without the     *)
(* signal, so unless a step raises the image file is written and the       *)
(* record appended; every item started before the loop ended has both or   *)
(* was reported as failed; and with the handler installed the run never    *)
(* ends by an uncaught exception but through the summary.                  *)
(***************************************************************************)
C3_InFlightItemIsFinished ==
  /\ [][(interrupted /\ pc \in InFlight /\ pc' # pc /\ errlog' = errlog) =>
          /\ pc = "select" => pc' = "prompt"
          /\ pc = "prompt" => pc' = "generate"
          /\ pc = "generate" => pc' = "save"
          /\ pc = "save" =>
               /\ pc' = "annotate"
               /\ i \in {p[2].index : p \in images'}
          /\ pc = "annotate" =>
               /\ pc' = "write"
               /\ i \in Recorded(annotations')
          /\ pc = "write" =>
               /\ pc' = "for"
               /\ Len(annotations_file') = Len(annotations_file) + 1
               /\ i \in Recorded(annotations_file')
               /\ i \in Imaged]_vars
  /\ [](pc \in {"for", "check", "summary", "exit"} /\ InDataset =>
          \A k \in 0..(i - 1) :
            \/ k \in FailedIn({"generate_image", "save", "write"})
            \/ k \in Imaged /\ k \in Recorded(annotations_file))
  /\ [][InDataset => pc' \notin {"aborted", "crashed"}]_vars
  /\ [][(pc = "summary" /\ pc' # pc) =>
          (pc' = "exit" /\ summary' # None)]_vars

\* the signal arrived while item 0 was in flight (the flag is set at a
\* position the interrupted test guards), its image is written and its
\* record is about to be appended
C3_Witness ==
  /\ interrupted
  /\ pc = "write"
  /\ i = 0
  /\ 0 \in Imaged
  /\ 0 \in Recorded(annotations)

(***************************************************************************)
(* C4: one record per image: when a run has ended, however it ended, as    *)
(* many records were appended to annotations.jsonl as image files written. *)
(***************************************************************************)
C4_OneRecordPerImage ==
  Ended => Len(annotations_file) = Cardinality(images)

(***************************************************************************)
(* C5 as stated: a fixed-number run (--num-images N, no --continuous)      *)
(* that is not interrupted ends with exactly N image files and N records.  *)
(***************************************************************************)
FixedMode == ~args.dry_run /\ ~args.continuous /\ args.num_images # None

C5_FixedRunGeneratesN ==
  (FixedMode /\ pc = "exit" /\ ~interrupted) =>
    /\ Cardinality(images) = Val(args.num_images)
    /\ Len(annotations_file) = Val(args.num_images)

(***************************************************************************)
(* C5 amended: a fixed-number run that is not interrupted attempts exactly *)
(* N items; it ends with N records less one per reported item and N image  *)
(* files less one per item whose generate_image or save raised, hence with *)
(* exactly N of each when no item fails.                                   *)
(***************************************************************************)
C5_FixedRunAttemptsN ==
  (FixedMode /\ pc = "exit" /\ ~interrupted) =>
    /\ i = Val(args.num_images)
    /\ Len(annotations_file) = Val(args.num_images) - Len(errlog)
    /\ Cardinality(images) = Val(args.num_images)
         - Cardinality(FailedIn({"generate_image", "save"}))
    /\ errlog = <<>> =>
         /\ Cardinality(images) = Val(args.num_images)
         /\ Len(annotations_file) = Val(args.num_images)

\* an uninterrupted run for two images in which nothing failed
C5_Witness ==
  /\ FixedMode
  /\ pc = "exit"
  /\ ~interrupted
  /\ Val(args.num_images) = MaxImages
  /\ errlog = <<>>
  /\ Len(annotations_file) = MaxImages

(***************************************************************************)
(* C6 as stated: in continuous mode (--continuous, or no --num-images) the *)
(* loop stops starting new items only when SIGINT has been received.       *)
(***************************************************************************)
ContinuousMode ==
  ~args.dry_run /\ (args.continuous \/ args.num_images = None)

C7_DryRunWritesNothing ==
  args.dry_run =>
    /\ self # None => Val(self).pipe = None
    /\ pc \in {"seed", "dispatch", "dry_loop", "exit", "aborted"}
    /\ ~handler
    /\ pipe_kwargs = None
    /\ seed = None
    /\ images = {}
    /\ annotations = <<>>
    /\ annotations_file = <<>>
    /\ dirs = {}
    /\ summary = None

\* a dry run that has printed the five default samples and returned
C7_Witness ==
  /\ args.dry_run
  /\ pc = "exit"
  /\ self # None
  /\ Len(samples) = DefaultSamples

(***************************************************************************)
(* C8: --seed S makes the run reproducible for every integer S: the state  *)
(* of the random generator, from which every category, prompt and          *)
(* per-image seed is computed, depends on S and on the number of draws     *)
(* made so far only, not on the entropy the process started with.          *)
(***************************************************************************)
C8_SeedMakesRunReproducible ==
  (args.seed # None /\ pc # "seed") =>
    rng = RngAfter(SeedState(Val(args.seed)), draws)

(***************************************************************************)
(* C9: the arguments passed to the pipeline are a function of the model    *)
(* identifier alone, with the priority FLUX, SD3, turbo or lightning,      *)
(* SDXL or RealVis, default: 28 steps, guidance 3.5, 1024x768; 28 steps,   *)
(* guidance 7.0, 1024x768; 2 steps, guidance 0.0; 45 steps, guidance 7.5,  *)
(* 1024x768; 40 steps, guidance 7.5, 512x384; and the step count is the    *)
(* one __init__ stored.  Guidance is in tenths.                            *)
(***************************************************************************)
C9_InferenceParametersByModelClass ==
  pipe_kwargs # None =>
    LET m == Lower(args.model)
        kw == Val(pipe_kwargs)
        params == <<kw.num_inference_steps, kw.guidance_scale,
                    kw.height, kw.width>>
    IN  /\ kw.num_inference_steps = Val(Val(self).steps)
        /\ IF Contains(StrFlux, m) THEN params = <<28, 35, 1024, 768>>
           ELSE IF Contains(StrStableDiffusion3, m)
             THEN params = <<28, 70, 1024, 768>>
           ELSE IF Contains(StrTurbo, m) \/ Contains(StrLightning, m)
             THEN kw.num_inference_steps = 2 /\ kw.guidance_scale = 0
           ELSE IF Contains(StrSdxl, m) \/ Contains(StrRealvis, m)
             THEN params = <<45, 75, 1024, 768>>
           ELSE params = <<40, 75, 512, 384>>

\* the pipeline has been called for a model that is both SD3 and turbo
C9_Witness ==
  /\ pipe_kwargs # None
  /\ args.model = SD35Turbo
  /\ Val(pipe_kwargs).guidance_scale = 70
  /\ Val(pipe_kwargs).num_inference_steps = 28

(***************************************************************************)
(* C10: every metadata record generate_prompt returns has a CVA angle in   *)
(* 30..70 that lies in the range of its posture type (30..48 for           *)
(* "interrupt-worthy", 48..53 for "borderline", 53..70 otherwise), its     *)
(* top-level posture_type and cva_angle equal posture.type and             *)
(* posture.cva_angle, and its posture_type is the requested type.  This    *)
(* is stated of the current item, of every printed sample and of every     *)
(* record of annotations.jsonl.                                            *)
(***************************************************************************)
LabelledFor(metadata, requested) ==
  /\ metadata.cva_angle \in 30..70
  /\ metadata.posture_type = "interrupt-worthy" =>
       metadata.cva_angle \in 30..48
  /\ metadata.posture_type = "borderline" =>
       metadata.cva_angle \in 48..53
  /\ metadata.posture_type \notin {"interrupt-worthy", "borderline"} =>
       metadata.cva_angle \in 53..70
  /\ metadata.posture.type = metadata.posture_type
  /\ metadata.posture.cva_angle = metadata.cva_angle
  /\ metadata.posture_type = requested

C10_CvaAngleInRangeOfType ==
  /\ (item # None /\ pc # "prompt") =>
       LabelledFor(Val(item).metadata, Val(category))
  /\ \A k \in 1..Len(samples) :
       LabelledFor(samples[k].metadata, samples[k].category)
  /\ \A k \in 1..Len(annotations_file) :
       LabelledFor(annotations_file[k].metadata, annotations_file[k].category)

\* generate_prompt has just labelled a requested "borderline" sample with
\* the angle 53, the upper end of its range
C10_Witness ==
  /\ pc = "dry_loop"
  /\ item # None
  /\ category = Some("borderline")
  /\ Val(item).metadata.posture_type = "borderline"
  /\ Val(item).metadata.cva_angle = 53

(***************************************************************************)
(* C11: for each item the steps come in the order generate image, save     *)
(* image file, append annotation record: the image file is only written by *)
(* the save step, which follows a returned generate_image, and a record is *)
(* only appended by the write step of an item whose image file exists.     *)
(* Hence every record of annotations.jsonl (and of the in-memory list)     *)
(* refers to an image file already written, and the category directory of  *)
(* that file exists since before the first item: all category directories  *)
(* are there whenever the loop is running, and none is created later.      *)
(***************************************************************************)
\* the positions of generate_dataset's loop
InLoop == {"for", "check"} \cup InFlight

C11_RecordRefersToWrittenImage ==
  /\ [][(pc = "generate" /\ pc' # pc) => pc' \in {"save", "for"}]_vars
  /\ [][(pc = "save" /\ pc' # pc) => pc' \in {"annotate", "for"}]_vars
  /\ [][(pc = "annotate" /\ pc' # pc) => pc' = "write"]_vars
  /\ [][images' # images =>
          /\ pc = "save"
          /\ seed # None
          /\ Val(pipe_kwargs).generator = Val(seed)
          /\ images' = images \cup {ImagePath(Val(category), i, Val(item).prompt)}
          /\ annotations' = annotations
          /\ i \notin Recorded(annotations)]_vars
  /\ [][annotations_file' # annotations_file =>
          /\ pc = "write"
          /\ ImagePath(Val(category), i, Val(item).prompt) \in images
          /\ annotations_file' =
               Append(annotations_file,
                      Annotation(Val(category), i, Val(item), Val(seed),
                                 Val(self).model_id))]_vars
  /\ [](\A k \in 1..Len(annotations_file) :
          /\ annotations_file[k].image_path \in images
          /\ annotations_file[k].image_path[1] \in dirs
          /\ annotations_file[k].image_path[1] = annotations_file[k].category)
  /\ [](\A k \in 1..Len(annotations) :
          annotations[k].image_path \in images)
  /\ [](\A p \in images : p[1] \in dirs)
  /\ [](pc \in InLoop => Range(DatasetCategories) \subseteq dirs)
  /\ [][(pc \in InLoop) => (dirs' = dirs)]_vars

\* two records have been appended, each for an image file in a category
\* directory
C11_Witness ==
  /\ Len(annotations_file) = 2
  /\ annotations_file[1].image_path \in images
  /\ annotations_file[2].image_path \in images
  /\ annotations_file[1].image_path # annotations_file[2].image_path
  /\ annotations_file[2].image_path[1] \in dirs

====
